---- MODULE Spec2Model ----
(***************************************************************************)
(* Namicorn: resolution dispatch (namicorn.ts), the Ethereum-style         *)
(* backends (EthereumNamingService.ts, cns.ts) and the Zilliqa backend     *)
(* (interfaces/NamingService.ts).                                          *)
(*                                                                         *)
(* A JavaScript string is a sequence of one-character strings; undefined,  *)
(* null, true and false are values that are no string.  Every network read *)
(* is answered by the environment: either a value or a transport error.    *)
(***************************************************************************)
EXTENDS Integers, Sequences, FiniteSets, TLC

VARIABLES ens, zns, call, resolving

vars == <<ens, zns, call, resolving>>

(* ------------------------------ bounds --------------------------------- *)

\* a domain is made of at most MaxLabels labels joined by dots
MaxLabels == 2

\* the environment may fail the n-th read of an operation, n <= MaxFailAt
MaxFailAt == 4

(* --------------------------- JavaScript values ------------------------- *)

Undefined == <<"<undefined>">>

Null == <<"<null>">>

True == <<"<true>">>

False == <<"<false>">>

Boolean(b) == IF b THEN True ELSE False

Falsy(v) == v \in {Undefined, Null, False, <<>>}

Zeros(n) == [i \in 1..n |-> "0"]

NullAddress == <<"0", "x">> \o Zeros(40)

Lower == <<"a","b","c","e","h","i","l","o","p","r","t","y","z">>

Upper == <<"A","B","C","E","H","I","L","O","P","R","T","Y","Z">>

Pos(table, c) == CHOOSE i \in 1..Len(table) : table[i] = c

UpperChar(c) == IF \E i \in 1..Len(Lower) : Lower[i] = c THEN Upper[Pos(Lower, c)] ELSE c

LowerChar(c) == IF \E i \in 1..Len(Upper) : Upper[i] = c THEN Lower[Pos(Upper, c)] ELSE c

ToUpperCase(s) == [i \in 1..Len(s) |-> UpperChar(s[i])]

ToLowerCase(s) == [i \in 1..Len(s) |-> LowerChar(s[i])]

\* String.prototype.indexOf for a one-character needle (0-based, -1 if absent)
IndexOf(s, c) ==
  IF \E i \in 1..Len(s) : s[i] = c
  THEN (CHOOSE i \in 1..Len(s) : s[i] = c /\ \A j \in 1..(i-1) : s[j] # c) - 1
  ELSE -1

StartsWith(s, p) == Len(s) >= Len(p) /\ SubSeq(s, 1, Len(p)) = p

EndsWith(s, p) == Len(s) >= Len(p) /\ SubSeq(s, Len(s) - Len(p) + 1, Len(s)) = p

\* the regular expression /^.{1,}\.(tld)$/ : "." matches any character but
\* a line terminator
LineTerminators == {"\n", "\r"}

RegexSuffix(s, tld) ==
  /\ Len(s) >= Len(tld) + 2
  /\ EndsWith(s, <<".">> \o tld)
  /\ \A i \in 1..(Len(s) - Len(tld) - 1) : s[i] \notin LineTerminators

Digits == <<"0","1","2","3","4","5","6","7","8","9">>

IsDigit(c) == \E i \in 1..Len(Digits) : Digits[i] = c

DigitVal(c) == (CHOOSE i \in 1..Len(Digits) : Digits[i] = c) - 1

NaN == -1

RECURSIVE DigitsValue(_, _)
DigitsValue(s, acc) ==
  IF s = <<>> \/ ~IsDigit(Head(s)) THEN acc
  ELSE DigitsValue(Tail(s), acc * 10 + DigitVal(Head(s)))

RECURSIVE SkipSpaces(_)
SkipSpaces(s) == IF s # <<>> /\ Head(s) = " " THEN SkipSpaces(Tail(s)) ELSE s

\* parseInt(v) of a non-negative decimal: NaN for undefined, null, "" and
\* for a string that does not start with a digit (after white space)
ParseInt(v) ==
  IF v \in {Undefined, Null} THEN NaN
  ELSE LET t == SkipSpaces(v)
       IN IF t = <<>> \/ ~IsDigit(Head(t)) THEN NaN ELSE DigitsValue(t, 0)

\* parseInt(v) || 0
ParseIntOrZero(v) == IF ParseInt(v) = NaN THEN 0 ELSE ParseInt(v)

(* ------------------------------ domains -------------------------------- *)

Zil == <<"z","i","l">>

Crypto == <<"c","r","y","p","t","o">>

Eth == <<"e","t","h">>

\* the last label of a domain, and the labels before it
Labels == {<<>>, <<"a">>, <<"b","\n">>, Zil, Crypto, Eth}

PrefixLabels == {<<>>, <<"a">>, <<"b","\n">>, Zil}

RECURSIVE Join(_)
Join(ls) == IF Len(ls) = 1 THEN ls[1] ELSE ls[1] \o <<".">> \o Join(Tail(ls))

LabelSeqs ==
  UNION { { ls \in [1..n -> Labels] : \A i \in 1..(n-1) : ls[i] \in PrefixLabels } :
          n \in 1..MaxLabels }

Domains == {Join(ls) : ls \in LabelSeqs}

Tickers == {<<"E","T","H">>, <<"e","t","h">>, <<"B","T","C">>}

(* ------------------------- isSupportedDomain --------------------------- *)

\* a faulty variant: the suffix is not looked at
AnySuffixIsSupportedDomain(domain) ==
  IndexOf(domain, ".") > 0

ZnsIsSupportedDomain(domain) == IndexOf(domain, ".") > 0 /\ RegexSuffix(domain, Zil)

CnsIsSupportedDomain(domain) == IndexOf(domain, ".") > 0 /\ RegexSuffix(domain, Crypto)

EnsIsSupportedDomain(domain) == IndexOf(domain, ".") > 0 /\ RegexSuffix(domain, Eth)

(* ----------------------------- resolutions ----------------------------- *)

\* a NamicornResolution; `null` marks the JavaScript null returned in its place
Resolution(addresses, owner, type, ttl) ==
  [ null |-> FALSE, addresses |-> addresses,
    meta |-> [owner |-> owner, type |-> type, ttl |-> ttl] ]

NoAddresses == [t \in {} |-> <<>>]

NullResolution ==
  [ null |-> TRUE, addresses |-> NoAddresses,
    meta |-> [owner |-> Null, type |-> "", ttl |-> 0] ]

(* --------------------------- errors, outcomes -------------------------- *)

ResolutionError(code) == [cls |-> "ResolutionError", code |-> code, msg |-> <<>>]

\* whatever the transport rejects with: an Error carrying a message
TransportError(msg) == [cls |-> "Error", code |-> "", msg |-> msg]

\* "Cannot read property ... of undefined"
TypeError == [cls |-> "TypeError", code |-> "", msg |-> <<>>]

NoError == [cls |-> "", code |-> "", msg |-> <<>>]

\* error instanceof ResolutionError
IsResolutionError(e) == e.cls = "ResolutionError"

\* how a call settles: `v` is the value returned, `res` the resolution
\* returned by an operation that returns one
Return(v) == [kind |-> "return", v |-> v, res |-> NullResolution, err |-> NoError]

ReturnResolution(res) == [kind |-> "return", v |-> Undefined, res |-> res, err |-> NoError]

Throw(e) == [kind |-> "throw", v |-> Undefined, res |-> NullResolution, err |-> e]

Throws(out, code) == out.kind = "throw" /\ out.err = ResolutionError(code)

(* ----------------------------- environment ----------------------------- *)

\* error messages of the transport, as words
MsgInvalidJson == <<"Invalid", "JSON", "RPC", "response", ":", "\"\"">>

MsgRateLimit == <<"Returned", "error", ":", "legacy", "access", "request", "rate", "exceeded">>

MsgTimeout == <<"connect", "ETIMEDOUT">>

Msgs == {MsgInvalidJson, MsgRateLimit, MsgTimeout}

\* message.match(/words/): the words occur in the message, in a row
Match(msg, words) ==
  \E i \in 0..(Len(msg) - Len(words)) : SubSeq(msg, i + 1, i + Len(words)) = words

PatInvalidJson == <<"Invalid", "JSON", "RPC", "response">>

PatRateLimit == <<"legacy", "access", "request", "rate", "exceeded">>

OwnerAddr == <<"0","x","0","w">>

ResolverAddr == <<"0","x","4","e">>

EthAddr == <<"0","x","a","b","c">>

BtcAddr == <<"1","b","t","c">>

CryptoDot == Crypto \o <<".">>

DotAddress == <<".","a","d","d","r","e","s","s">>

\* `crypto.${coinName.toUpperCase()}.address`
AddrKey(coinName) == CryptoDot \o ToUpperCase(coinName) \o DotAddress

TtlKey == <<"t","t","l">>

RecordKeys == {AddrKey(<<"E","T","H">>), AddrKey(<<"B","T","C">>), TtlKey}

\* the record sets a resolver contract may hold
RecordSets ==
  { [k \in {AddrKey(<<"E","T","H">>), TtlKey} |->
       IF k = TtlKey THEN <<"1","2","0">> ELSE EthAddr],
    [k \in {} |-> <<>>],
    [k \in RecordKeys |->
       IF k = TtlKey THEN <<"7","d">>
       ELSE IF k = AddrKey(<<"E","T","H">>) THEN <<"0","x">> ELSE NullAddress],
    [k \in {AddrKey(<<"E","T","H">>), AddrKey(<<"B","T","C">>)} |->
       IF k = AddrKey(<<"E","T","H">>) THEN Undefined ELSE BtcAddr] }

NoRecords == [k \in {} |-> <<>>]

\* what the environment answers to the reads of one operation
DefaultEnv ==
  [ owner |-> Undefined, resolver |-> Undefined, regGet |-> "undefined",
    records |-> NoRecords, zreg |-> "noresult", zowner |-> <<>>,
    zresolver |-> NullAddress, zrecords |-> "noresult",
    failAt |-> 0, failMsg |-> MsgTimeout ]

Failures == {<<0, MsgTimeout>>} \cup ((1..MaxFailAt) \X Msgs)

\* Ethereum: registry owner and resolver of the token, what a `get` sent to
\* the registry contract answers, and the resolver's record set
EthEnvs ==
  { [DefaultEnv EXCEPT !.owner = o, !.resolver = r, !.regGet = g, !.records = rs,
                       !.failAt = f[1], !.failMsg = f[2]] :
      o \in {Undefined, NullAddress, OwnerAddr},
      r \in {Undefined, NullAddress, ResolverAddr},
      g \in {"undefined", "value", "revert"},
      rs \in RecordSets,
      f \in Failures }

\* Zilliqa: the substate answer for the registry record and for the
\* resolver's records field
ZnsEnvs ==
  { [DefaultEnv EXCEPT !.zreg = zr[1], !.zowner = zr[2], !.zresolver = zr[3],
                       !.zrecords = zs[1], !.records = zs[2],
                       !.failAt = f[1], !.failMsg = f[2]] :
      zr \in {<<"noresult", <<>>, NullAddress>>, <<"nokey", <<>>, NullAddress>>}
             \cup ({"record"} \X {<<>>, OwnerAddr, <<"z","i","l","1","0","w">>}
                              \X {NullAddress, ResolverAddr}),
      zs \in {<<"noresult", NoRecords>>} \cup ({"map"} \X RecordSets),
      f \in Failures }

\* no Zilliqa substate in the answer
ZNone == [shape |-> "", owner |-> <<>>, resolver |-> <<>>, records |-> NoRecords]

\* one read: which contract, which method, which key, and the answer
ReadOf(contract, method, key, env, n, value) ==
  [ contract |-> contract, method |-> method, key |-> key, token |-> <<>>,
    ok |-> env.failAt # n,
    msg |-> IF env.failAt = n THEN env.failMsg ELSE <<>>,
    v |-> IF env.failAt = n THEN Undefined ELSE value, z |-> ZNone ]

Step(out, reads) == [out |-> out, reads |-> reads]

UNCLAIMED_DOMAIN_RESPONSE == Resolution(NoAddresses, Null, "", 0)

\* obj[key] of a JavaScript object
Lookup(obj, key) == IF key \in DOMAIN obj THEN obj[key] ELSE Undefined

(* ------------------------- Ethereum-style: CNS ------------------------- *)

\* ensureSupportedDomain of the naming-service base class
EnsureSupportedDomain(supported) ==
  IF supported THEN Return(Undefined) ELSE Throw(ResolutionError("UnsupportedDomain"))

\* hash(domain) of eth-ens-namehash: the name is normalised to lower case
Namehash(domain) == <<"#">> \o ToLowerCase(domain)

CnsNamehash(domain) ==
  LET e == EnsureSupportedDomain(CnsIsSupportedDomain(domain))
  IN IF e.kind = "throw" THEN e ELSE Return(Namehash(domain))

CnsCallMethod(read) ==
  IF read.ok THEN Return(read.v)
  ELSE IF Match(read.msg, PatInvalidJson) \/ Match(read.msg, PatRateLimit)
       THEN Throw(ResolutionError("NamingServiceDown"))
       ELSE Throw(TransportError(read.msg))

MsgRevert == <<"execution", "reverted">>

RegistryTtl == <<"7">>

\* a `get` sent to the registry contract, which is no resolver
RegistryGetRead(key, token, env, n) ==
  LET r == ReadOf("registry", "get", key, env, n,
                  IF env.regGet = "value" THEN RegistryTtl ELSE Undefined)
  IN [r EXCEPT !.token = token,
               !.ok = r.ok /\ env.regGet # "revert",
               !.msg = IF r.ok /\ env.regGet = "revert" THEN MsgRevert ELSE r.msg]

RegistryRead(method, token, env, n, value) ==
  [ReadOf("registry", method, <<>>, env, n, value) EXCEPT !.token = token]

\* resolverContract.get(key, tokenId): a key the resolver does not hold reads ""
ResolverRead(key, token, env, n) ==
  [ReadOf("resolver", "get", key, env, n,
          IF key \in DOMAIN env.records THEN env.records[key] ELSE <<>>)
     EXCEPT !.token = token]

\* Cns.getResolutionMeta, the decision on the owner and the resolver read
CnsResolverCheck(owner, resolver) ==
  IF Falsy(resolver) \/ resolver = NullAddress
  THEN IF Falsy(owner) \/ owner = NullAddress
       THEN Throw(ResolutionError("UnregisteredDomain"))
       ELSE Throw(ResolutionError("UnspecifiedResolver"))
  ELSE Return(resolver)

\* private getTtl: the contract it is given is not the one it calls
CnsGetTtl(key, token, env, n) == RegistryGetRead(key, token, env, n)

CnsGetResolutionMeta(domain, env) ==
  LET h == CnsNamehash(domain) IN
  IF h.kind = "throw" THEN Step(h, <<>>) ELSE
  LET tokenId == h.v
      r1 == RegistryRead("ownerOf", tokenId, env, 1, env.owner)
      owner == CnsCallMethod(r1)
  IN
  IF owner.kind = "throw" THEN Step(owner, <<r1>>) ELSE
  LET r2 == RegistryRead("resolverOf", tokenId, env, 2, env.resolver)
      resolver == CnsCallMethod(r2)
  IN
  IF resolver.kind = "throw" THEN Step(resolver, <<r1, r2>>) ELSE
  LET chk == CnsResolverCheck(owner.v, resolver.v) IN
  IF chk.kind = "throw" THEN Step(chk, <<r1, r2>>) ELSE
  LET r3 == CnsGetTtl(TtlKey, tokenId, env, 3)
      ttl == CnsCallMethod(r3)
  IN
  IF ttl.kind = "throw" THEN Step(ttl, <<r1, r2, r3>>) ELSE
  Step(Return([tokenId |-> tokenId, owner |-> owner.v,
               ttl |-> ParseIntOrZero(ttl.v), resolver |-> resolver.v]),
       <<r1, r2, r3>>)

\* private fetchAddress, the n-th read of the operation
CnsFetchAddress(tokenId, coinName, env, n) ==
  LET r == ResolverRead(AddrKey(coinName), tokenId, env, n)
  IN Step(CnsCallMethod(r), <<r>>)

CnsResolve(domain, env) ==
  LET e == EnsureSupportedDomain(CnsIsSupportedDomain(domain))
      m == IF e.kind = "throw" THEN Step(e, <<>>) ELSE CnsGetResolutionMeta(domain, env)
  IN
  IF m.out.kind = "throw"
  THEN IF IsResolutionError(m.out.err)
       THEN Step(ReturnResolution(NullResolution), m.reads)
       ELSE m
  ELSE
  LET a == CnsFetchAddress(m.out.v.tokenId, <<"E","T","H">>, env, Len(m.reads) + 1)
  IN
  IF a.out.kind = "throw" THEN Step(a.out, m.reads \o a.reads) ELSE
  Step(ReturnResolution(Resolution([t \in {<<"E","T","H">>} |-> a.out.v],
                         m.out.v.owner, "cns", m.out.v.ttl)),
       m.reads \o a.reads)

CnsAddress(domain, currencyTicker, env) ==
  LET m == CnsGetResolutionMeta(domain, env) IN
  IF m.out.kind = "throw" THEN m ELSE
  LET a == CnsFetchAddress(m.out.v.tokenId, currencyTicker, env, Len(m.reads) + 1)
  IN
  IF a.out.kind = "throw" THEN Step(a.out, m.reads \o a.reads) ELSE
  IF Falsy(a.out.v)
  THEN Step(Throw(ResolutionError("UnspecifiedCurrency")), m.reads \o a.reads)
  ELSE Step(Return(a.out.v), m.reads \o a.reads)

\* a faulty variant: "0x" passes for a record
CnsWrongRecordBut0x(record) ==
  Falsy(record) \/ record = NullAddress

\* Cns.record, the "wrong record" test
CnsWrongRecord(record) ==
  Falsy(record) \/ record = <<"0","x">> \/ record = NullAddress

CnsRecord(domain, key, env) ==
  LET h == CnsNamehash(domain) IN
  IF h.kind = "throw" THEN Step(h, <<>>) ELSE
  LET tokenId == h.v
      r1 == RegistryRead("resolverOf", tokenId, env, 1, env.resolver)
      resolver == CnsCallMethod(r1)
  IN
  IF resolver.kind = "throw" THEN Step(resolver, <<r1>>) ELSE
  LET r2 == ResolverRead(key, tokenId, env, 2)
      record == CnsCallMethod(r2)
  IN
  IF record.kind = "throw" THEN Step(record, <<r1, r2>>) ELSE
  IF CnsWrongRecord(record.v)
  THEN Step(Throw(ResolutionError("RecordNotFound")), <<r1, r2>>)
  ELSE Step(Return(record.v), <<r1, r2>>)

(* ------------------ EthereumNamingService (base class) ----------------- *)

EthCallMethod(read) ==
  IF read.ok THEN Return(read.v)
  ELSE IF Match(read.msg, PatInvalidJson) \/ Match(read.msg, PatRateLimit)
       THEN Throw(ResolutionError("NamingServiceDown"))
       ELSE Throw(TransportError(read.msg))

\* isNullAddress of ./types: absent, or the null address
IsNullAddress(v) == Falsy(v) \/ v = NullAddress

\* throwOwnershipError(domain, ownerPromise): `owner` is how the promise settles
ThrowOwnershipError(owner) ==
  IF owner.kind = "throw" THEN owner
  ELSE IF IsNullAddress(owner.v)
       THEN Throw(ResolutionError("UnregisteredDomain"))
       ELSE Throw(ResolutionError("UnspecifiedResolver"))

\* EthereumNamingService.resolver as Cns inherits it: the owner read is
\* started (with the domain, not the token, as its argument), the resolver
\* read is awaited
EthResolver(domain, env) ==
  LET h == CnsNamehash(domain) IN
  IF h.kind = "throw" THEN Step(h, <<>>) ELSE
  LET r1 == RegistryRead("ownerOf", domain, env, 1, env.owner)
      r2 == RegistryRead("resolverOf", h.v, env, 2, env.resolver)
      resolverAddress == CnsCallMethod(r2)
  IN
  IF resolverAddress.kind = "throw" THEN Step(resolverAddress, <<r1, r2>>) ELSE
  IF Falsy(resolverAddress.v) \/ IsNullAddress(resolverAddress.v)
  THEN Step(ThrowOwnershipError(CnsCallMethod(r1)), <<r1, r2>>)
  ELSE Step(Return(resolverAddress.v), <<r1, r2>>)

(* ------------------------- Ethereum-style: ENS ------------------------- *)

\* the ENS backend, by the resolution meta algorithm of the specification
EnsResolve(domain, env) ==
  LET e == EnsureSupportedDomain(EnsIsSupportedDomain(domain)) IN
  IF e.kind = "throw" THEN Step(e, <<>>) ELSE
  LET nodeHash == Namehash(domain)
      r1 == RegistryRead("owner", nodeHash, env, 1, env.owner)
      owner == EthCallMethod(r1)
  IN
  IF owner.kind = "throw" THEN Step(owner, <<r1>>) ELSE
  LET r2 == RegistryRead("resolver", nodeHash, env, 2, env.resolver)
      resolver == EthCallMethod(r2)
  IN
  IF resolver.kind = "throw" THEN Step(resolver, <<r1, r2>>) ELSE
  IF IsNullAddress(resolver.v)
  THEN IF IsNullAddress(owner.v)
       THEN Step(ReturnResolution(NullResolution), <<r1, r2>>)
       ELSE Step(Throw(ResolutionError("UnspecifiedResolver")), <<r1, r2>>)
  ELSE
  LET r3 == ResolverRead(TtlKey, nodeHash, env, 3)
      ttl == EthCallMethod(r3)
  IN
  IF ttl.kind = "throw" THEN Step(ttl, <<r1, r2, r3>>) ELSE
  LET r4 == ResolverRead(AddrKey(<<"E","T","H">>), nodeHash, env, 4)
      addr == EthCallMethod(r4)
  IN
  IF addr.kind = "throw" THEN Step(addr, <<r1, r2, r3, r4>>) ELSE
  Step(ReturnResolution(Resolution([t \in {<<"E","T","H">>} |-> addr.v],
                         owner.v, "ens", ParseIntOrZero(ttl.v))),
       <<r1, r2, r3, r4>>)

(* ------------------------------- ZNS ----------------------------------- *)

\* zilliqa.provider.send("GetSmartContractSubState", contract, field, keys):
\* what the answer holds is in `z`
ZnsRead(contract, field, key, env, n, z) ==
  [ReadOf(contract, "GetSmartContractSubState", key, env, n, Undefined)
     EXCEPT !.token = field, !.z = IF env.failAt = n THEN @ ELSE z]

\* getContractField: (response.result || {})[field]; a transport error is
\* not caught
ZnsGetContractField(read) ==
  IF ~read.ok THEN Throw(TransportError(read.msg))
  ELSE IF read.z.shape = "noresult" THEN Return([read.z EXCEPT !.shape = "undefined"])
  ELSE Return(read.z)

\* getContractMapValue: (await getContractField(...))[key]
ZnsGetContractMapValue(read) ==
  LET f == ZnsGetContractField(read) IN
  IF f.kind = "throw" THEN f
  ELSE IF f.v.shape = "undefined" THEN Throw(TypeError)
  ELSE IF f.v.shape = "nokey" THEN Return([f.v EXCEPT !.shape = "undefined"])
  ELSE f

\* the tickers T of the keys crypto.T.address
ZnsTickers(records) ==
  { SubSeq(k, Len(CryptoDot) + 1, Len(k) - Len(DotAddress)) :
      k \in { k \in DOMAIN records :
                /\ Len(k) > Len(CryptoDot) + Len(DotAddress)
                /\ StartsWith(k, CryptoDot)
                /\ EndsWith(k, DotAddress) } }

\* _.mapValues(resolution.crypto, 'address') of the records set by path
ZnsAddresses(records) ==
  [ t \in {t \in ZnsTickers(records) : IndexOf(t, ".") = -1} |->
      records[CryptoDot \o t \o DotAddress] ]

\* toBech32Address of @zilliqa-js/crypto, of an address that starts with 0x
ToBech32Address(addr) == <<"z","i","l","1">> \o SubSeq(addr, 3, Len(addr))

HexPrefix == <<"0","x">>

\* getResolverRecordsStructure, the n-th read of the operation
ZnsGetResolverRecordsStructure(resolverAddress, env, n) ==
  IF resolverAddress = NullAddress THEN Step(Return(NoRecords), <<>>) ELSE
  LET r == ZnsRead("resolver", <<"records">>, <<>>, env, n,
                   [shape |-> env.zrecords, owner |-> <<>>, resolver |-> <<>>,
                    records |-> env.records])
      f == ZnsGetContractField(r)
  IN
  IF f.kind = "throw" THEN Step(f, <<r>>)
  ELSE IF f.v.shape = "undefined" THEN Step(Return(NoRecords), <<r>>)
  ELSE Step(Return(f.v.records), <<r>>)

ZnsResolve(domain, env) ==
  LET r1 == ZnsRead("registry", <<"records">>, Namehash(domain), env, 1,
                    [shape |-> env.zreg, owner |-> env.zowner,
                     resolver |-> env.zresolver, records |-> NoRecords])
      registryRecord == ZnsGetContractMapValue(r1)
  IN
  IF registryRecord.kind = "throw" THEN Step(registryRecord, <<r1>>) ELSE
  IF registryRecord.v.shape = "undefined" THEN Step(ReturnResolution(NullResolution), <<r1>>) ELSE
  LET ownerAddress == registryRecord.v.owner
      res == ZnsGetResolverRecordsStructure(registryRecord.v.resolver, env, 2)
  IN
  IF res.out.kind = "throw" THEN Step(res.out, <<r1>> \o res.reads) ELSE
  LET owner == IF StartsWith(ownerAddress, HexPrefix)
               THEN ToBech32Address(ownerAddress) ELSE ownerAddress
  IN
  Step(ReturnResolution(Resolution(ZnsAddresses(res.out.v),
                         IF Falsy(owner) THEN Null ELSE owner,
                         "zns",
                         ParseIntOrZero(Lookup(res.out.v, TtlKey)))),
       <<r1>> \o res.reads)

(* ------------------------------ Namicorn ------------------------------- *)

\* the model is of blockchain mode (this.blockchain is true); `ens` and `zns`
\* say which of this.ens and this.zns the constructor has set

BackendIsSupportedDomain(method, domain) ==
  CASE method = "ens" -> EnsIsSupportedDomain(domain)
    [] method = "zns" -> ZnsIsSupportedDomain(domain)
    [] method = "cns" -> CnsIsSupportedDomain(domain)

BackendResolve(method, domain, env) ==
  CASE method = "ens" -> EnsResolve(domain, env)
    [] method = "zns" -> ZnsResolve(domain, env)
    [] method = "cns" -> CnsResolve(domain, env)

\* const methods = [this.ens, this.zns]
Methods == <<"ens", "zns">>

Registered(method) ==
  CASE method = "ens" -> ens
    [] method = "zns" -> zns
    [] OTHER -> FALSE

\* a faulty variant: a backend that was not constructed is asked too
GetNamingMethodUnregistered(domain) ==
  LET found == { i \in 1..Len(Methods) : BackendIsSupportedDomain(Methods[i], domain) }
  IN IF found = {} THEN "none"
     ELSE Methods[CHOOSE i \in found : \A j \in found : i <= j]

\* methods.find(method => method && method.isSupportedDomain(domain))
GetNamingMethod(domain) ==
  LET found == { i \in 1..Len(Methods) :
                   Registered(Methods[i]) /\ BackendIsSupportedDomain(Methods[i], domain) }
  IN IF found = {} THEN "none"
     ELSE Methods[CHOOSE i \in found : \A j \in found : i <= j]

IsSupportedDomain(domain) ==
  \/ zns /\ ZnsIsSupportedDomain(domain)
  \/ ens /\ EnsIsSupportedDomain(domain)

\* no outcome (yet)
NoOutcome == [kind |-> "none", v |-> Undefined, res |-> NullResolution, err |-> NoError]

\* what a Namicorn operation did: its outcome, the reads issued, the backend
\* it delegated to, and how the inner this.resolve and this.addressOrThrow
\* settled
Dispatch(out, reads, delegated) ==
  [ out |-> out, reads |-> reads, delegated |-> delegated,
    resolved |-> NoOutcome, orThrow |-> NoOutcome ]

\* resolveUsingBlockchain once the backend has answered:
\* result || UNCLAIMED_DOMAIN_RESPONSE
OrUnclaimed(method, result) ==
  Dispatch(IF result.out.kind = "return" /\ result.out.res.null
           THEN ReturnResolution(UNCLAIMED_DOMAIN_RESPONSE)
           ELSE result.out,
           result.reads, <<method>>)

ResolveUsingBlockchain(domain, env) ==
  LET method == GetNamingMethod(domain) IN
  IF method = "none"
  THEN Dispatch(Throw(ResolutionError("UnsupportedDomain")), <<>>, <<>>)
  ELSE OrUnclaimed(method, BackendResolve(method, domain, env))

Resolve(domain, env) == ResolveUsingBlockchain(domain, env)

\* addressOrThrow, the catch around this.resolve
AddressOrThrowCatch(err) ==
  IF IsResolutionError(err) THEN Return(Null) ELSE Throw(err)

\* a faulty variant: the owner is not looked at
AddressOrThrowCheckNoOwner(data, currencyTicker) ==
  IF Falsy(Lookup(data.addresses, ToUpperCase(currencyTicker)))
  THEN Throw(ResolutionError("UnregisteredCurrency"))
  ELSE Return(Lookup(data.addresses, ToUpperCase(currencyTicker)))

\* addressOrThrow, after the resolution `data` has been obtained
AddressOrThrowCheck(data, currencyTicker) ==
  IF Falsy(data.meta.owner)
  THEN Throw(ResolutionError("UnregisteredDomain"))
  ELSE IF Falsy(Lookup(data.addresses, ToUpperCase(currencyTicker)))
       THEN Throw(ResolutionError("UnregisteredCurrency"))
       ELSE Return(Lookup(data.addresses, ToUpperCase(currencyTicker)))

\* addressOrThrow once this.resolve has settled as `r`
AddressOrThrowOf(r, currencyTicker) ==
  [ r EXCEPT !.resolved = r.out,
             !.out = IF r.out.kind = "throw"
                     THEN AddressOrThrowCatch(r.out.err)
                     ELSE AddressOrThrowCheck(r.out.res, currencyTicker) ]

AddressOrThrow(domain, currencyTicker, env) ==
  AddressOrThrowOf(Resolve(domain, env), currencyTicker)

\* a faulty variant: every error is swallowed
AddressCatchAll(err) ==
  Return(Null)

\* address, the catch around this.addressOrThrow
AddressCatch(err) ==
  IF IsResolutionError(err) THEN Return(Null) ELSE Throw(err)

\* address once this.addressOrThrow has settled as `r`
AddressOf(r) ==
  [ r EXCEPT !.orThrow = r.out,
             !.out = IF r.out.kind = "throw" THEN AddressCatch(r.out.err) ELSE r.out ]

Address(domain, currencyTicker, env) ==
  AddressOf(AddressOrThrow(domain, currencyTicker, env))

(* ------------------------------ the calls ------------------------------ *)

\* no call is in progress
NoCall ==
  [ op |-> "none", domain |-> <<>>, arg |-> <<>>, out |-> NoOutcome,
    reads |-> <<>>, delegated |-> <<>>, resolved |-> NoOutcome,
    orThrow |-> NoOutcome ]

\* a call of a backend operation, settled as `r`
Call(op, domain, arg, r) ==
  [ NoCall EXCEPT !.op = op, !.domain = domain, !.arg = arg,
                  !.out = r.out, !.reads = r.reads ]

\* a call of a Namicorn operation, settled as `r`
NamicornCall(op, domain, arg, r) ==
  [ NoCall EXCEPT !.op = op, !.domain = domain, !.arg = arg,
                  !.out = r.out, !.reads = r.reads, !.delegated = r.delegated,
                  !.resolved = r.resolved, !.orThrow = r.orThrow ]

\* the answers the environment may give to the backend a domain goes to
EnvsFor(method) ==
  CASE method \in {"ens", "cns"} -> EthEnvs
    [] method = "zns" -> ZnsEnvs
    [] OTHER -> {DefaultEnv}

\* a Cns operation on a domain Cns does not support issues no read
CnsEnvsFor(domain) == EnvsFor(IF CnsIsSupportedDomain(domain) THEN "cns" ELSE "none")

Idle == call.op = "none" /\ resolving.pc = "none"

NamicornResolve ==
  /\ Idle
  /\ \E domain \in Domains : \E env \in EnvsFor(GetNamingMethod(domain)) :
       call' = NamicornCall("Namicorn.resolve", domain, <<>>, Resolve(domain, env))
  /\ UNCHANGED <<ens, zns, resolving>>

NamicornAddressOrThrow ==
  /\ Idle
  /\ \E domain \in Domains, ticker \in Tickers :
       \E env \in EnvsFor(GetNamingMethod(domain)) :
         call' = NamicornCall("Namicorn.addressOrThrow", domain, ticker,
                              AddressOrThrow(domain, ticker, env))
  /\ UNCHANGED <<ens, zns, resolving>>

NamicornAddress ==
  /\ Idle
  /\ \E domain \in Domains, ticker \in Tickers :
       \E env \in EnvsFor(GetNamingMethod(domain)) :
         call' = NamicornCall("Namicorn.address", domain, ticker,
                              Address(domain, ticker, env))
  /\ UNCHANGED <<ens, zns, resolving>>

NamicornIsSupportedDomain ==
  /\ Idle
  /\ \E domain \in Domains :
       call' = Call("Namicorn.isSupportedDomain", domain, <<>>,
                    Step(Return(Boolean(IsSupportedDomain(domain))), <<>>))
  /\ UNCHANGED <<ens, zns, resolving>>

CnsResolveCall ==
  /\ Idle
  /\ \E domain \in Domains : \E env \in CnsEnvsFor(domain) :
       call' = Call("Cns.resolve", domain, <<>>, CnsResolve(domain, env))
  /\ UNCHANGED <<ens, zns, resolving>>

CnsAddressCall ==
  /\ Idle
  /\ \E domain \in Domains, ticker \in Tickers : \E env \in CnsEnvsFor(domain) :
       call' = Call("Cns.address", domain, ticker, CnsAddress(domain, ticker, env))
  /\ UNCHANGED <<ens, zns, resolving>>

CnsRecordCall ==
  /\ Idle
  /\ \E domain \in Domains, key \in RecordKeys : \E env \in CnsEnvsFor(domain) :
       call' = Call("Cns.record", domain, key, CnsRecord(domain, key, env))
  /\ UNCHANGED <<ens, zns, resolving>>

CnsResolverCall ==
  /\ Idle
  /\ \E domain \in Domains : \E env \in CnsEnvsFor(domain) :
       call' = Call("Cns.resolver", domain, <<>>, EthResolver(domain, env))
  /\ UNCHANGED <<ens, zns, resolving>>

(* ------- EthereumNamingService.resolver, from one await to the next ----- *)

\* a promise that has not settled
Pending == [NoOutcome EXCEPT !.kind = "pending"]

\* no call of resolver() is running: `owner` and `resolver` are the promises
\* of the two reads, `handled` says that ownerPromise has a handler
NotResolving ==
  [ pc |-> "none", domain |-> <<>>, owner |-> NoOutcome, resolver |-> NoOutcome,
    out |-> NoOutcome, handled |-> FALSE ]

Settled(promise) == promise.kind \in {"return", "throw"}

\* what the registry answers to the n-th read of resolver(): nothing, the
\* null address or `address`, or the read fails
RegistryAnswers(n, address) ==
  { [DefaultEnv EXCEPT !.owner = a, !.resolver = a, !.failAt = f[1], !.failMsg = f[2]] :
      a \in {Undefined, NullAddress, address},
      f \in {<<0, MsgTimeout>>} \cup ({n} \X Msgs) }

\* const nodeHash = this.namehash(domain);
\* const ownerPromise = this.owner(domain);
\* ... this.getResolver(nodeHash): both reads are in flight
ResolverStart ==
  /\ Idle
  /\ \E domain \in Domains :
       resolving' =
         IF CnsNamehash(domain).kind = "throw"
         THEN [NotResolving EXCEPT !.pc = "done", !.domain = domain,
                                   !.out = CnsNamehash(domain)]
         ELSE [NotResolving EXCEPT !.pc = "awaitResolver", !.domain = domain,
                                   !.owner = Pending, !.resolver = Pending]
  /\ UNCHANGED <<ens, zns, call>>

\* the owner read is answered, whenever that is
OwnerPromiseSettles ==
  /\ resolving.owner.kind = "pending"
  /\ \E env \in RegistryAnswers(1, OwnerAddr) :
       resolving' =
         [resolving EXCEPT !.owner =
            CnsCallMethod(RegistryRead("ownerOf", resolving.domain, env, 1, env.owner))]
  /\ UNCHANGED <<ens, zns, call>>

\* the resolver read is answered
ResolverPromiseSettles ==
  /\ resolving.resolver.kind = "pending"
  /\ \E env \in RegistryAnswers(2, ResolverAddr) :
       resolving' =
         [resolving EXCEPT !.resolver =
            CnsCallMethod(RegistryRead("resolverOf", Namehash(resolving.domain),
                                       env, 2, env.resolver))]
  /\ UNCHANGED <<ens, zns, call>>

ResolverAwaitedNeverOwner ==
  /\ resolving.pc = "awaitResolver"
  /\ Settled(resolving.resolver)
  /\ resolving' = [resolving EXCEPT !.pc = "done", !.handled = TRUE,
                                    !.out = resolving.resolver]
  /\ UNCHANGED <<ens, zns, call>>

\* await this.getResolver(nodeHash) resumes: with no resolver address
\* throwOwnershipError awaits ownerPromise, else ownerPromise.catch(() => {})
\* and return resolverAddress
ResolverAwaited ==
  /\ resolving.pc = "awaitResolver"
  /\ Settled(resolving.resolver)
  /\ resolving' =
       IF resolving.resolver.kind = "throw"
       THEN [resolving EXCEPT !.pc = "done", !.out = resolving.resolver]
       ELSE IF Falsy(resolving.resolver.v) \/ IsNullAddress(resolving.resolver.v)
            THEN [resolving EXCEPT !.pc = "awaitOwner"]
            ELSE [resolving EXCEPT !.pc = "done", !.handled = TRUE,
                                   !.out = Return(resolving.resolver.v)]
  /\ UNCHANGED <<ens, zns, call>>

\* throwOwnershipError: await ownerPromise resumes
OwnerAwaited ==
  /\ resolving.pc = "awaitOwner"
  /\ Settled(resolving.owner)
  /\ resolving' = [resolving EXCEPT !.pc = "done", !.handled = TRUE,
                                    !.out = ThrowOwnershipError(resolving.owner)]
  /\ UNCHANGED <<ens, zns, call>>

\* the caller has the outcome and no read is in flight any more
ResolverSettled ==
  /\ resolving.pc = "done"
  /\ resolving.owner.kind # "pending"
  /\ resolving' = NotResolving
  /\ UNCHANGED <<ens, zns, call>>

\* the caller has the outcome; the next call may start
Settle ==
  /\ call.op # "none"
  /\ call' = NoCall
  /\ UNCHANGED <<ens, zns, resolving>>

\* the state after construction: blockchain.ens and blockchain.zns each
\* default to true and may be switched off
Init ==
  /\ ens \in BOOLEAN /\ zns \in BOOLEAN
  /\ call = NoCall
  /\ resolving = NotResolving

Next ==
  \/ NamicornResolve
  \/ NamicornAddressOrThrow
  \/ NamicornAddress
  \/ NamicornIsSupportedDomain
  \/ CnsResolveCall
  \/ CnsAddressCall
  \/ CnsRecordCall
  \/ CnsResolverCall
  \/ Settle
  \/ ResolverStart
  \/ OwnerPromiseSettles
  \/ ResolverPromiseSettles
  \/ ResolverAwaited
  \/ OwnerAwaited
  \/ ResolverSettled

Spec == Init /\ [][Next]_vars

(* ------------------------------ properties ----------------------------- *)

\* the chain holds no registration of the domain of the call: no registry
\* record (ZNS), owner and resolver both absent or null (Ethereum-style)
NoRegistration ==
  \/ /\ call.delegated = <<"zns">>
     /\ Len(call.reads) >= 1
     /\ call.reads[1].ok
     /\ call.reads[1].z.shape \in {"noresult", "nokey"}
  \/ /\ call.delegated = <<"ens">>
     /\ Len(call.reads) >= 2
     /\ call.reads[1].ok /\ call.reads[2].ok
     /\ IsNullAddress(call.reads[1].v) /\ IsNullAddress(call.reads[2].v)

ReturnsUnclaimed ==
  call.out.kind = "return" /\ call.out.res = UNCLAIMED_DOMAIN_RESPONSE

\* C1: Namicorn.resolve of a domain that a registered backend supports and
\* that has no registration on chain completes without error and returns
\* exactly the unclaimed response {addresses: {}, meta: {owner: null,
\* type: "", ttl: 0}}.
C1_UnclaimedResponse ==
  (call.op = "Namicorn.resolve" /\ NoRegistration) => ReturnsUnclaimed

\* the read failed with a message callMethod turns into NamingServiceDown
ReadIsDown(read) ==
  ~read.ok /\ (Match(read.msg, PatInvalidJson) \/ Match(read.msg, PatRateLimit))

\* the owner read gave an owner, the resolver read gave none
OwnedNoResolver ==
  /\ Len(call.reads) >= 2
  /\ call.reads[1].ok /\ call.reads[2].ok
  /\ ~(Falsy(call.reads[1].v) \/ call.reads[1].v = NullAddress)
  /\ (Falsy(call.reads[2].v) \/ call.reads[2].v = NullAddress)

\* C2: resolve does not swallow NamingServiceDown or UnspecifiedResolver:
\* when a read of an Ethereum-style backend fails with NamingServiceDown the
\* resolve fails with NamingServiceDown, and when the domain has an owner
\* but no resolver it fails with UnspecifiedResolver; it returns no
\* resolution, unclaimed or other, in either case.
C2_ResolveDoesNotSwallow ==
  (call.op \in {"Cns.resolve", "Namicorn.resolve"} /\ call.delegated # <<"zns">>) =>
    /\ (\E i \in 1..Len(call.reads) : ReadIsDown(call.reads[i]))
         => Throws(call.out, "NamingServiceDown")
    /\ OwnedNoResolver => Throws(call.out, "UnspecifiedResolver")

\* the registered backends that support the domain of the call, by their
\* place in the registration order
Supporting ==
  { i \in 1..Len(Methods) :
      Registered(Methods[i]) /\ BackendIsSupportedDomain(Methods[i], call.domain) }

\* C3: Namicorn.resolve delegates to exactly one backend, the first in the
\* registration order that supports the domain; it fails with
\* UnsupportedDomain if and only if no registered backend supports the
\* domain, and then no backend is called and no read is issued.
C3_FirstSupportingBackend ==
  call.op = "Namicorn.resolve" =>
    /\ (Supporting = {}) <=> Throws(call.out, "UnsupportedDomain")
    /\ (Supporting = {}) => (call.delegated = <<>> /\ call.reads = <<>>)
    /\ (Supporting # {}) =>
         \E i \in Supporting :
           /\ \A j \in Supporting : i <= j
           /\ call.delegated = <<Methods[i]>>

\* both backends are registered, the second one took the domain and answered
C3_Witness ==
  /\ call.op = "Namicorn.resolve"
  /\ ens /\ zns
  /\ call.delegated = <<"zns">>
  /\ call.out.kind = "return"
  /\ Len(call.reads) = 2

\* this.resolve gave a resolution without an owner
Unowned ==
  call.resolved.kind = "return" /\ Falsy(call.resolved.res.meta.owner)

ReturnsNull == call.out.kind = "return" /\ call.out.v = Null

\* C4: for a supported but unclaimed domain (the resolution has no owner)
\* and any ticker, Namicorn.address returns null without raising, while
\* Namicorn.addressOrThrow fails with UnregisteredDomain.
C4_UnclaimedAddress ==
  /\ (call.op = "Namicorn.address" /\ Unowned) =>
       (ReturnsNull /\ Throws(call.orThrow, "UnregisteredDomain"))
  /\ (call.op = "Namicorn.addressOrThrow" /\ Unowned) =>
       Throws(call.out, "UnregisteredDomain")

\* address("a.zil", "BTC") of an unclaimed domain has returned null
C4_Witness ==
  /\ call.op = "Namicorn.address"
  /\ Unowned
  /\ call.delegated = <<"zns">>
  /\ call.arg = <<"B","T","C">>
  /\ ReturnsNull
  /\ Throws(call.orThrow, "UnregisteredDomain")

\* the resolution path under address failed with a ResolutionError
TaxonomyFailure ==
  \/ call.resolved.kind = "throw" /\ IsResolutionError(call.resolved.err)
  \/ call.orThrow.kind = "throw" /\ IsResolutionError(call.orThrow.err)

\* C5: Namicorn.address returns null exactly when the resolution path under
\* it fails with a ResolutionError; a failure that is no ResolutionError
\* (a transport fault outside the two patterns, a TypeError) reaches the
\* caller unchanged and is never turned into null.
C5_AddressNullOnTaxonomyOnly ==
  call.op = "Namicorn.address" =>
    /\ ReturnsNull <=> TaxonomyFailure
    /\ (call.resolved.kind = "throw" /\ ~IsResolutionError(call.resolved.err))
         => call.out = call.resolved
    /\ (call.orThrow.kind = "throw" /\ ~IsResolutionError(call.orThrow.err))
         => call.out = call.orThrow

\* a transport fault under address has reached the caller
C5_Witness ==
  /\ call.op = "Namicorn.address"
  /\ call.resolved.kind = "throw"
  /\ call.resolved.err.cls = "Error"
  /\ call.out = call.resolved

\* the owner read and the resolver read both gave nothing
UnownedNoResolver ==
  /\ Len(call.reads) >= 2
  /\ call.reads[1].ok /\ call.reads[2].ok
  /\ (Falsy(call.reads[1].v) \/ call.reads[1].v = NullAddress)
  /\ (Falsy(call.reads[2].v) \/ call.reads[2].v = NullAddress)

\* C6: resolving a domain whose owner is set but whose resolver is absent or
\* the null address fails with UnspecifiedResolver, never with
\* UnregisteredDomain; UnregisteredDomain is raised by the resolver
\* discovery (Cns.getResolutionMeta, EthereumNamingService.resolver) only
\* when the owner read is absent or the null address too.
C6_UnspecifiedResolver ==
  call.op \in {"Cns.resolve", "Cns.address", "Cns.resolver"} =>
    /\ OwnedNoResolver => Throws(call.out, "UnspecifiedResolver")
    /\ Throws(call.out, "UnregisteredDomain") => UnownedNoResolver

\* the domain is registered and has a resolver, every read was answered,
\* and the resolver holds no address for the ticker asked for
NoAddressRecord ==
  \/ /\ call.op = "Cns.address"
     /\ Len(call.reads) = 4
     /\ \A i \in 1..4 : call.reads[i].ok
     /\ Falsy(call.reads[4].v)
  \/ /\ call.op \in {"Namicorn.address", "Namicorn.addressOrThrow"}
     /\ call.resolved.kind = "return"
     /\ ~Falsy(call.resolved.res.meta.owner)
     /\ Len(call.reads) >= 2
     /\ Falsy(Lookup(call.resolved.res.addresses, ToUpperCase(call.arg)))

\* C7: for a registered domain with a resolver whose record set has no, or
\* an empty, address record for the ticker, address(domain, ticker) fails
\* with UnspecifiedCurrency: it returns no value and fails with no other
\* error.
C7_UnspecifiedCurrency ==
  NoAddressRecord => Throws(call.out, "UnspecifiedCurrency")

\* a read of the call failed with "Invalid JSON RPC response"
InvalidJsonRead ==
  \E i \in 1..Len(call.reads) :
    ~call.reads[i].ok /\ Match(call.reads[i].msg, PatInvalidJson)

\* C8: for every backend and every read it issues during resolve, address
\* or record, a transport failure whose message matches "Invalid JSON RPC
\* response" reaches the caller as NamingServiceDown: neither the raw
\* transport error nor a result.
C8_InvalidJsonIsNamingServiceDown ==
  (/\ call.op \in {"Namicorn.resolve", "Cns.resolve", "Cns.address", "Cns.record"}
   /\ InvalidJsonRead)
    => Throws(call.out, "NamingServiceDown")

\* the backends whose pattern matches the domain of the call
Matching ==
  { m \in {"ens", "zns", "cns"} : BackendIsSupportedDomain(m, call.domain) }

\* C9: the dispatcher's isSupportedDomain(d) is true iff exactly one
\* registered backend's pattern matches d, and no domain is matched by two
\* backends at once.
C9_SupportedIffOneBackend ==
  call.op = "Namicorn.isSupportedDomain" =>
    /\ call.out.kind = "return" /\ call.out.v \in {True, False}
    /\ (call.out.v = True) <=> (Cardinality(Supporting) = 1)
    /\ Cardinality(Matching) <= 1

\* with both backends registered a .zil domain has been found supported
C9_Witness ==
  /\ call.op = "Namicorn.isSupportedDomain"
  /\ ens /\ zns
  /\ ZnsIsSupportedDomain(call.domain)
  /\ call.out.v = True

\* the values that are no record
NoRecordValues == {Undefined, Null, <<>>, <<"0", "x">>, NullAddress}

\* C10: record(domain, key) returns a value that is not empty, not "0x" and
\* not the null address, or it fails; when the value read from the resolver
\* is empty or absent, "0x" or the null address it fails with
\* RecordNotFound.
C10_RecordNotFound ==
  call.op = "Cns.record" =>
    /\ call.out.kind = "return" => call.out.v \notin NoRecordValues
    /\ (/\ Len(call.reads) = 2
        /\ call.reads[2].ok
        /\ call.reads[2].v \in NoRecordValues)
         => Throws(call.out, "RecordNotFound")

\* the resolver held "0x" for the key and record has failed
C10_Witness ==
  /\ call.op = "Cns.record"
  /\ Len(call.reads) = 2
  /\ call.reads[2].ok
  /\ call.reads[2].v = <<"0", "x">>
  /\ Throws(call.out, "RecordNotFound")

\* resolver() has decided: it returned the resolver address or raised one
\* of the two ownership errors
ResolverDecided ==
  /\ resolving.pc = "done"
  /\ \/ resolving.out.kind = "return"
     \/ Throws(resolving.out, "UnregisteredDomain")
     \/ Throws(resolving.out, "UnspecifiedResolver")

\* C11: in the resolver discovery the owner read and the resolver read may
\* be in flight together, but both have completed before the step decides:
\* it never returns while the owner read is pending, and a failure of the
\* owner read is not discarded.
C11_BothReadsBeforeDecision ==
  ResolverDecided =>
    /\ Settled(resolving.owner) /\ Settled(resolving.resolver)
    /\ resolving.owner.kind = "throw" => resolving.out = resolving.owner

NoResolverAddress ==
  /\ resolving.resolver.kind = "return"
  /\ Falsy(resolving.resolver.v) \/ IsNullAddress(resolving.resolver.v)

\* C11, as the code has it: when resolver() has finished, the resolver read
\* has completed; the owner read has completed too when there is no resolver
\* address, and the ownership error or the owner read's failure is the
\* outcome; with a resolver address the step returns it, whether or not the
\* owner read has completed, and the owner promise has a handler.
C11_OwnerAwaitedOnlyWithoutResolver ==
  (resolving.pc = "done" /\ CnsNamehash(resolving.domain).kind # "throw") =>
    /\ Settled(resolving.resolver)
    /\ NoResolverAddress =>
         /\ Settled(resolving.owner)
         /\ resolving.out.kind = "throw"
         /\ resolving.owner.kind = "throw" => resolving.out = resolving.owner
         /\ resolving.owner.kind = "return" =>
              \/ Throws(resolving.out, "UnregisteredDomain")
              \/ Throws(resolving.out, "UnspecifiedResolver")
    /\ (resolving.resolver.kind = "return" /\ ~NoResolverAddress) =>
         /\ resolving.out = Return(resolving.resolver.v)
         /\ resolving.handled
    /\ resolving.resolver.kind = "throw" => resolving.out = resolving.resolver

\* resolver() has returned the resolver address while the owner read is
\* still in flight
C11_Witness ==
  /\ resolving.pc = "done"
  /\ resolving.out = Return(ResolverAddr)
  /\ resolving.owner = Pending

\* the reads of the ttl record that the call has issued
TtlReads ==
  { i \in DOMAIN call.reads :
      call.reads[i].method = "get" /\ call.reads[i].key = TtlKey }

\* C12: in the resolution-meta sequence the ttl read goes to the resolver
\* contract that was discovered, never to the registry contract, and the
\* returned meta.ttl is the integer value of the resolver's ttl record, or 0
\* when that record is absent or not a number.
C12_TtlFromResolver ==
  \A i \in TtlReads :
    /\ call.reads[i].contract = "resolver"
    /\ (call.op \in {"Cns.resolve", "Namicorn.resolve"}
          /\ call.out.kind = "return" /\ ~call.out.res.null) =>
         call.out.res.meta.ttl = ParseIntOrZero(call.reads[i].v)

\* C13: Namicorn.addressOrThrow never completes with null or an empty value:
\* it returns a non-empty address string or fails with an error; when resolve
\* fails with a taxonomy error such as UnsupportedDomain it fails too.
C13_AddressOrThrowNeverNull ==
  (call.op = "Namicorn.addressOrThrow" /\ call.out.kind = "return") =>
    /\ ~Falsy(call.out.v)
    /\ call.resolved.kind = "return"

====
